---------------------------- MODULE Spec2Model ----------------------------
(***************************************************************************)
(* Clawler: the four crawler scripts (Naver blog, Tistory, Velog, Saramin) *)
(* as one state machine.  A run picks a platform and its arguments, walks  *)
(* the platform's URL discoverer, and then the orchestrator's fetch loop.  *)
(*                                                                         *)
(* Text is a sequence of one-character strings, so that strip(),           *)
(* startswith() and len() are computed as Python computes them.  None      *)
(* and the empty string are both the empty sequence where the code only    *)
(* tests truthiness.                                                       *)
(***************************************************************************)
EXTENDS Integers, Sequences, FiniteSets, TLC

\* ------------------------------------------------------------- bounds ---
\* --max-pages ranges over 0..MaxPages.
MaxPages == 2
\* --max-articles ranges over 0..MaxArticles.
MaxArticles == 2
\* A listing page (or scroll iteration) holds at most MaxAnchors matches.
MaxAnchors == 2

\* --------------------------------------------------------------- text ---
Empty == << >>

Range(s) == {s[k] : k \in DOMAIN s}

IsSpace(c) == c \in {" ", "\n", "\t"}

RECURSIVE LStrip(_)
LStrip(s) == IF s # Empty /\ IsSpace(Head(s)) THEN LStrip(Tail(s)) ELSE s

RECURSIVE RStrip(_)
RStrip(s) ==
    IF s # Empty /\ IsSpace(s[Len(s)]) THEN RStrip(SubSeq(s, 1, Len(s) - 1)) ELSE s

\* str.strip()
Strip(s) == RStrip(LStrip(s))

\* str.startswith(p)
StartsWith(s, p) == Len(s) >= Len(p) /\ SubSeq(s, 1, Len(p)) = p

\* element.get_text(separator=sep, strip=True): the stripped text nodes
\* that are not empty, joined by sep.
RECURSIVE GetText(_, _)
GetText(el, sep) ==
    IF el = <<>> THEN Empty
    ELSE LET h == Strip(Head(el))
             t == GetText(Tail(el), sep)
         IN  IF h = Empty THEN t ELSE IF t = Empty THEN h ELSE h \o sep \o t

\* element.get_text(): the text nodes as they are, concatenated.
RECURSIVE RawText(_)
RawText(el) == IF el = <<>> THEN Empty ELSE Head(el) \o RawText(Tail(el))

\* An optional value (what soup.find returns): None, or Some(x).
None == << >>
Some(x) == <<x>>

Http == <<"h", "t", "t", "p">>
Hash == <<"#">>
JsVoid == <<"j", "a", "v", "a", "s", "c", "r", "i", "p", "t", ":",
            "v", "o", "i", "d", "(", "0", ")">>

\* Link values the listing fixtures draw from.
UrlA == Http \o <<":", "a">>
UrlB == Http \o <<":", "b">>
RelLink == <<"/", "a">>
PaddedHash == <<" ", "#", " ">>

\* All sequences over U of length 0..MaxAnchors: what one listing page's
\* selector can match.
Listings(U) == UNION {[1..n -> U] : n \in 0..MaxAnchors}

Platforms == {"naver", "tistory", "velog", "saramin"}


\* ------------------------------------------------------------ fixtures ---
\* data-url values of the anchors a Naver listing can hold.
NaverLinks == {UrlA, UrlB, PaddedHash, JsVoid, RelLink}

\* href values of the anchors a Tistory listing can hold (Empty: no href).
TistoryLinks == {UrlA, UrlB, RelLink, Empty, Hash}

\* A Velog href is kept as its path split at "/": "/@a/." is
\* <<"", "@a", ".">>, each segment a text.
SegA == <<"@", "a">>
SegB == <<"@", "b">>
Dot == <<".">>
DotDot == <<".", ".">>
HrefA == <<Empty, SegA, Empty>>
HrefADot == <<Empty, SegA, Dot>>
HrefB == <<Empty, SegB>>
HrefOther == <<Empty, <<"x">>>>
DateText == <<"d">>

\* The <a> elements of a Velog search page: the href, and the text of the
\* span of the sibling div.subinfo (Empty when there is none).
VelogAnchors ==
    { [href |-> HrefA, date |-> Empty], [href |-> HrefADot, date |-> DateText],
      [href |-> HrefB, date |-> DateText], [href |-> HrefOther, date |-> Empty] }

\* An element is the sequence of its text nodes.
ElemP == <<<<"p">>>>
ElemQ == <<<<" ", "q">>, <<" ">>, <<"r">>>>

\* A Saramin div.box_review is its div.view_title and its div.view_cont,
\* each None or a record of what parse_review reads in it.
\* div.view_title: <strong> (its first span, and its text nodes outside
\* that span), the first <ul>, span.txt_date.
BareTitle == [strong |-> None, ul |-> None, txt_date |-> None]
FullTitle ==
    [strong |-> Some([span |-> Some(ElemP), text |-> <<<<" ", "c">>, <<" ">>>>]),
     ul |-> Some(ElemQ), txt_date |-> Some(<<<<"d", " ">>>>)]

\* A div.info_view: its first <ul>, its p.txt_desc elements, and the <li>
\* elements of its ul.list_question (None without such a ul).
InfoView(ul, ps, lis) == [ul |-> ul, ps |-> ps, list_question |-> lis]

\* div.view_cont: div.info_emotion (the first dd of each of its dl, and its
\* dd.spr_review), the div.info_view elements, and the p.txt_desc elements
\* outside them.
BareCont == [info_emotion |-> None, info_views |-> <<>>, other_ps |-> <<>>]
OnePCont == [info_emotion |-> None, info_views |-> <<>>, other_ps |-> <<ElemP>>]
FullCont ==
    [info_emotion |-> Some([dds |-> <<Some(ElemP)>>, spr_review |-> Some(ElemQ)]),
     info_views |-> << InfoView(Some(ElemP), <<>>, None),
                       InfoView(Some(ElemQ), <<>>, None),
                       InfoView(None, <<ElemQ>>, None),
                       InfoView(None, <<>>, Some(<<ElemP, ElemQ>>)) >>,
     other_ps |-> <<ElemP>>]

\* A find_all that does not descend into the div.info_view elements.
PTagsNotRecursive(vc) == vc.other_ps

\* vc.find_all("p", class_="txt_desc")
RECURSIVE InnerPs(_)
InnerPs(ivs) == IF ivs = <<>> THEN <<>> ELSE Head(ivs).ps \o InnerPs(Tail(ivs))
PTags(vc) == InnerPs(vc.info_views) \o vc.other_ps

\* The boxes a listing page of a run holds.
SaraminBoxes ==
    { [view_title |-> Some(FullTitle), view_cont |-> Some(FullCont)],
      [view_title |-> Some(BareTitle), view_cont |-> Some(OnePCont)],
      [view_title |-> None, view_cont |-> Some(BareCont)] }

\* -------------------------------------------------------------- state ---
VARIABLES
    platform,       \* which script runs
    max_pages,      \* args.max_pages (Saramin: args.pages)
    max_articles,   \* args.max_articles
    pc,             \* position of the single thread of control
    page,           \* loop variable of the listing loop
    posts,          \* the matches of the current page (the inner loop's list)
    post_i,         \* position of the inner loop in posts
    collected_urls, \* collected_urls / collected of the discoverer
    seen,           \* Velog: seen
    first_seen,     \* history: accepted URLs of the parsed pages, first-seen order
    requested,      \* history: the listing requests issued, with their outcome
    drivers,        \* browser sessions open now
    opened,         \* number of sessions init_driver has opened
    idx,            \* orchestrator: position in the discovered sequence
    results,        \* orchestrator: results
    trace,          \* history: the fetch attempts, one entry per attempt
    last_height,    \* scroll_page: last_height
    new_height,     \* scroll_page: new_height
    scrolls,        \* history: scrollTo calls of the current scroll_page, up to MaxScrolls
    all_reviews,    \* Saramin: all_reviews
    doc,            \* an extractor on its own: the function and the parsed page
    fields,         \* an extractor on its own: None, or Some(what it returned)
    pace            \* "none": no request yet; "hot": no time.sleep since the
                    \* last request; "cool": time.sleep since the last request

vars ==
    <<platform, max_pages, max_articles, pc, page, posts, post_i, collected_urls, seen,
      first_seen, requested, drivers, opened, idx, results, trace, last_height,
      new_height, scrolls, all_reviews, doc, fields, pace>>

args == <<platform, max_pages, max_articles>>
inner == <<posts, post_i>>
sess == <<drivers, opened>>
height == <<last_height, new_height, scrolls>>
orch == <<idx, results, trace, last_height, new_height, scrolls>>
ext == <<doc, fields>>

\* Nothing requested, collected or fetched yet.
Fresh ==
    /\ page = 1
    /\ posts = <<>>
    /\ post_i = 1
    /\ collected_urls = <<>>
    /\ seen = {}
    /\ first_seen = <<>>
    /\ requested = <<>>
    /\ drivers = {}
    /\ opened = 0
    /\ idx = 1
    /\ results = <<>>
    /\ trace = <<>>
    /\ last_height = 0
    /\ new_height = 0
    /\ scrolls = 0
    /\ all_reviews = <<>>
    /\ pace = "none"

\* The start of a script's run.
Init ==
    /\ platform \in Platforms
    /\ max_pages \in 0..MaxPages
    /\ max_articles \in IF platform = "saramin" THEN {0} ELSE 0..MaxArticles
    /\ pc = IF platform \in {"tistory", "velog"} THEN "urls_init" ELSE "urls_loop"
    /\ Fresh
    /\ doc = <<>>
    /\ fields = <<>>

\* ------------------------------------------------------ shared pieces ---
\* Variant of CapReached that needs more than max_articles URLs.
CapReachedStrict(coll, max) == Len(coll) > max

\* len(collected_urls) >= max_articles
CapReached(coll, max) == Len(coll) >= max

\* Variant of Continue that stays on the same page.
ContinueSamePage == pc' = "urls_loop" /\ UNCHANGED page

\* "continue" / "break" of the listing loop, and the for statement running
\* out of pages.
Continue == page' = page + 1 /\ pc' = "urls_loop"
Break == pc' = "urls_end" /\ UNCHANGED page
LoopControl(ctl) == IF ctl = "continue" THEN Continue ELSE Break

Log(outcome) == requested' = Append(requested, [page |-> page, outcome |-> outcome])

\* The URLs of us not yet in fs, appended to fs in order (history only).
RECURSIVE FirstSeenExtend(_, _)
FirstSeenExtend(fs, us) ==
    IF us = <<>> THEN fs
    ELSE FirstSeenExtend(IF Head(us) \in Range(fs) THEN fs ELSE Append(fs, Head(us)),
                         Tail(us))

\* init_driver(): a new session, or the driver cannot be started.
init_driver(next_pc) ==
    \/ /\ opened' = opened + 1
       /\ drivers' = drivers \cup {opened + 1}
       /\ pc' = next_pc
    \/ /\ pc' = "raised_init"
       /\ UNCHANGED sess

\* A driver.quit() that leaves the session open.
driver_quit_without_effect == UNCHANGED drivers

\* driver.quit() on the session this function opened.
driver_quit == drivers' = drivers \ {opened}

\* ---------------------------------------------- Naver: crawl_blog_urls ---
\* Variant of NaverAccepts without the startswith("http") test.
NaverAcceptsNoSchemeTest(url) == ~(url = Empty \/ Strip(url) \in {Hash, JsVoid})

\* The filter of line 117 (TRUE: the anchor is kept).
NaverAccepts(url) ==
    ~(url = Empty \/ Strip(url) \in {Hash, JsVoid} \/ ~StartsWith(url, Http))

\* Variant of NaverCollect without the membership test of line 119.
NaverCollectNoMembershipTest(coll, url) ==
    IF ~NaverAccepts(url) THEN coll ELSE Append(coll, url)

\* Lines 116-120 for one anchor.
NaverCollect(coll, url) ==
    IF ~NaverAccepts(url) THEN coll
    ELSE IF url \notin Range(coll) THEN Append(coll, url) ELSE coll

\* Variant of NaverOnNoPosts that leaves the loop.
NaverOnNoPostsBreak == "break"

\* Lines 109-111: what the loop does on a page without matches.
NaverOnNoPosts == "continue"

\* Variant of start_val that counts from 0.
start_val_from_zero(p) == (p - 1) * 15

\* Line 93: start_val = (page - 1) * 15 + 1
start_val(p) == (p - 1) * 15 + 1

\* The listing request of lines 94-100, with its start parameter (history).
NaverLog(outcome) ==
    requested' = Append(requested, [page |-> page, start |-> start_val(page),
                                    outcome |-> outcome])

\* One pass of "for page in range(1, max_pages + 1)" up to the inner loop.
crawl_blog_urls_for ==
    /\ platform = "naver" /\ pc = "urls_loop"
    /\ UNCHANGED <<args, ext, collected_urls, seen, sess, orch, all_reviews>>
    /\ pace' = IF page > max_pages THEN pace ELSE "hot"
    /\ IF page > max_pages
       THEN pc' = "urls_end" /\ UNCHANGED <<page, inner, first_seen, requested>>
       ELSE \/ \* requests.get / raise_for_status raised
               /\ NaverLog("raise") /\ Continue
               /\ UNCHANGED <<inner, first_seen>>
            \/ \E p \in Listings(NaverLinks) :
                 /\ first_seen' = FirstSeenExtend(first_seen, SelectSeq(p, NaverAccepts))
                 /\ IF p = <<>>
                    THEN NaverLog("empty") /\ LoopControl(NaverOnNoPosts) /\ UNCHANGED inner
                    ELSE NaverLog("posts") /\ posts' = p /\ post_i' = 1 /\ pc' = "urls_posts"
                         /\ UNCHANGED page

\* One pass of "for post in posts", or what follows the loop.
crawl_blog_urls_post ==
    /\ platform = "naver" /\ pc = "urls_posts"
    /\ UNCHANGED <<args, ext, seen, first_seen, requested, sess, orch, all_reviews>>
    /\ pace' = IF post_i > Len(posts) /\ ~CapReached(collected_urls, max_articles)
               THEN "cool" ELSE pace
    /\ IF post_i > Len(posts) \/ CapReached(collected_urls, max_articles)
       THEN /\ UNCHANGED <<inner, collected_urls>>
            /\ IF CapReached(collected_urls, max_articles) THEN Break ELSE Continue
       ELSE /\ collected_urls' = NaverCollect(collected_urls, posts[post_i])
            /\ post_i' = post_i + 1 /\ UNCHANGED posts
            /\ UNCHANGED <<pc, page>>

crawl_blog_urls_return ==
    /\ platform = "naver" /\ pc = "urls_end"
    /\ pc' = "urls_done"
    /\ UNCHANGED <<pace, args, ext, page, inner, collected_urls, seen, first_seen, requested,
                   sess, orch, all_reviews>>


\* ------------------------------- Tistory: crawl_tistory_urls_selenium ---
\* Line 100 without the membership test.
TistoryAccepts(url) == url # Empty /\ StartsWith(url, Http)

\* Lines 99-101 for one anchor.
TistoryCollect(coll, url) ==
    IF TistoryAccepts(url) /\ url \notin Range(coll) THEN Append(coll, url) ELSE coll

\* Lines 90-94: what the loop does on a page without matches.
TistoryOnNoPosts == "continue"

crawl_tistory_urls_selenium_init ==
    /\ platform = "tistory" /\ pc = "urls_init"
    /\ init_driver("urls_loop")
    /\ UNCHANGED <<pace, args, ext, page, inner, collected_urls, seen, first_seen, requested,
                   orch, all_reviews>>

\* One pass of the page loop up to the inner loop.  driver.get and
\* driver.page_source are outside the try: what they raise leaves the function.
\* (save_html_page writes into the working directory, taken to be writable.)
crawl_tistory_urls_selenium_for ==
    /\ platform = "tistory" /\ pc = "urls_loop"
    /\ UNCHANGED <<args, ext, collected_urls, seen, sess, orch, all_reviews>>
    /\ IF page > max_pages
       THEN pc' = "urls_end" /\ UNCHANGED <<page, inner, first_seen, requested, pace>>
       ELSE \/ \* driver.get raised, or driver.page_source after time.sleep(2)
               /\ Log("abort") /\ pc' = "raised"
               /\ pace' \in {"hot", "cool"}
               /\ UNCHANGED <<page, inner, first_seen>>
            \/ \* WebDriverWait(...).until raised (caught)
               /\ Log("raise") /\ Continue
               /\ pace' = "hot"
               /\ UNCHANGED <<inner, first_seen>>
            \/ \E p \in Listings(TistoryLinks) :
                 /\ pace' = "cool"
                 /\ first_seen' = FirstSeenExtend(first_seen, SelectSeq(p, TistoryAccepts))
                 /\ IF p = <<>>
                    THEN Log("empty") /\ LoopControl(TistoryOnNoPosts) /\ UNCHANGED inner
                    ELSE Log("posts") /\ posts' = p /\ post_i' = 1 /\ pc' = "urls_posts"
                         /\ UNCHANGED page

crawl_tistory_urls_selenium_post ==
    /\ platform = "tistory" /\ pc = "urls_posts"
    /\ UNCHANGED <<args, ext, seen, first_seen, requested, sess, orch, all_reviews>>
    /\ pace' = IF post_i > Len(posts) /\ ~CapReached(collected_urls, max_articles)
               THEN "cool" ELSE pace
    /\ IF post_i > Len(posts) \/ CapReached(collected_urls, max_articles)
       THEN /\ UNCHANGED <<inner, collected_urls>>
            /\ IF CapReached(collected_urls, max_articles) THEN Break ELSE Continue
       ELSE /\ collected_urls' = TistoryCollect(collected_urls, posts[post_i])
            /\ post_i' = post_i + 1 /\ UNCHANGED posts
            /\ UNCHANGED <<pc, page>>

\* driver.quit(); return collected_urls
crawl_tistory_urls_selenium_return ==
    /\ platform = "tistory" /\ pc = "urls_end"
    /\ driver_quit /\ UNCHANGED opened
    /\ pc' = "urls_done"
    /\ UNCHANGED <<pace, args, ext, page, inner, collected_urls, seen, first_seen, requested,
                   orch, all_reviews>>

\* ----------------------------------- Velog: crawl_velog_urls_selenium ---
VelogOrigin == "https://velog.io"

\* href=re.compile(r"^/@"): the path starts with "/@".
HrefMatches(h) == Len(h) >= 2 /\ h[1] = Empty /\ StartsWith(h[2], <<"@">>)

\* The loop of urllib.parse.urljoin over the segments of an absolute path.
RECURSIVE ResolveSegments(_, _)
ResolveSegments(segs, resolved) ==
    IF segs = <<>> THEN resolved
    ELSE LET seg == Head(segs)
         IN  ResolveSegments(Tail(segs),
                 IF seg = DotDot
                 THEN (IF resolved = <<>> THEN resolved
                       ELSE SubSeq(resolved, 1, Len(resolved) - 1))
                 ELSE IF seg = Dot THEN resolved
                 ELSE Append(resolved, seg))

\* segments[1:-1] = filter(None, segments[1:-1])
DropInnerEmpty(segs) ==
    IF Len(segs) <= 2 THEN segs
    ELSE <<segs[1]>>
         \o SelectSeq(SubSeq(segs, 2, Len(segs) - 1), LAMBDA x : x # Empty)
         \o <<segs[Len(segs)]>>

\* urljoin("https://velog.io", href) for an href that is an absolute path.
urljoin(href) ==
    LET segs == DropInnerEmpty(href)
        r == ResolveSegments(segs, <<>>)
        path == IF segs[Len(segs)] \in {Dot, DotDot} THEN Append(r, Empty) ELSE r
    IN  [origin |-> VelogOrigin,
         path |-> IF path \in {<<>>, <<Empty>>} THEN <<Empty, Empty>> ELSE path]

\* Lines 51-52: the URL was collected before.
VelogSeen(full_url, sn) == full_url \in sn

crawl_velog_urls_selenium_init ==
    /\ platform = "velog" /\ pc = "urls_init"
    /\ init_driver("urls_get")
    /\ UNCHANGED <<pace, args, ext, page, inner, collected_urls, seen, first_seen, requested,
                   orch, all_reviews>>

\* driver.get(f"https://velog.io/search?q=...")
crawl_velog_urls_selenium_get ==
    /\ platform = "velog" /\ pc = "urls_get"
    /\ pc' \in {"urls_loop", "raised"}
    /\ pace' = "hot"
    /\ UNCHANGED <<args, ext, page, inner, collected_urls, seen, first_seen, requested,
                   sess, orch, all_reviews>>

\* One pass of "for _ in range(max_pages)" up to the inner loop: scroll,
\* parse the page source, keep the anchors whose href matches.
crawl_velog_urls_selenium_for ==
    /\ platform = "velog" /\ pc = "urls_loop"
    /\ UNCHANGED <<args, ext, collected_urls, seen, sess, orch, all_reviews>>
    /\ IF page > max_pages
       THEN pc' = "urls_end" /\ UNCHANGED <<page, inner, first_seen, requested, pace>>
       ELSE \/ \* execute_script raised, or page_source after time.sleep(2)
               /\ Log("abort") /\ pc' = "raised"
               /\ pace' \in {"hot", "cool"}
               /\ UNCHANGED <<page, inner, first_seen>>
            \/ \E p \in Listings(VelogAnchors) :
                 LET found == SelectSeq(p, LAMBDA a : HrefMatches(a.href))
                 IN  /\ pace' = "cool"
                     /\ first_seen' =
                            FirstSeenExtend(first_seen,
                                [k \in DOMAIN found |-> urljoin(found[k].href)])
                     /\ Log(IF found = <<>> THEN "empty"
                            ELSE IF \A k \in DOMAIN found : urljoin(found[k].href) \in seen
                                 THEN "stale" ELSE "posts")
                     /\ posts' = found /\ post_i' = 1
                     /\ pc' = "urls_posts"
                     /\ UNCHANGED page

\* One pass of "for a in soup.find_all(...)", or what follows the loop.
crawl_velog_urls_selenium_post ==
    /\ platform = "velog" /\ pc = "urls_posts"
    /\ UNCHANGED <<pace, args, ext, first_seen, requested, sess, orch, all_reviews>>
    /\ IF post_i > Len(posts)
       THEN /\ UNCHANGED <<inner, collected_urls, seen>>
            /\ IF CapReached(collected_urls, max_articles) THEN Break ELSE Continue
       ELSE LET a == posts[post_i]
                full_url == urljoin(a.href)
            IN  /\ UNCHANGED <<pc, page>>
                /\ IF VelogSeen(full_url, seen)
                   THEN post_i' = post_i + 1 /\ UNCHANGED <<posts, collected_urls, seen>>
                   ELSE /\ seen' = seen \cup {full_url}
                        /\ collected_urls' =
                               Append(collected_urls,
                                      [url |-> full_url, date |-> Strip(a.date)])
                        /\ post_i' = IF CapReached(collected_urls', max_articles)
                                     THEN Len(posts) + 1 ELSE post_i + 1
                        /\ UNCHANGED posts

\* driver.quit(); return collected
crawl_velog_urls_selenium_return ==
    /\ platform = "velog" /\ pc = "urls_end"
    /\ driver_quit /\ UNCHANGED opened
    /\ pc' = "urls_done"
    /\ UNCHANGED <<pace, args, ext, page, inner, collected_urls, seen, first_seen, requested,
                   orch, all_reviews>>

\* -------------------------------------- Saramin: crawl_saramin_reviews ---
\* Variant of parse_review that returns a dict of empty values for a box
\* without div.view_title or div.view_cont.
parse_review_no_skip(box) ==
    << [company |-> Empty, result |-> Empty, date |-> Empty, interview_info |-> Empty,
        overall_review |-> Empty, difficulty |-> Empty, interview_type |-> Empty,
        num_interviewers |-> Empty, process |-> Empty, questions |-> <<>>,
        tip |-> Empty] >>

\* safe_get_text(element, default="") and
\* safe_get_text(element, default="", strip=True, separator=" ")
safe_get_text(element) == IF element = None THEN Empty ELSE RawText(element[1])
safe_get_text_strip(element) ==
    IF element = None THEN Empty ELSE GetText(element[1], <<" ">>)

\* parse_review: <<>> for None, <<review>> otherwise.
parse_review(box) ==
    IF box.view_title = None \/ box.view_cont = None THEN <<>>
    ELSE LET vt == box.view_title[1]
             vc == box.view_cont[1]
             ie == vc.info_emotion
             ivs == vc.info_views
             p_tags == PTags(vc)
         IN  << [company |-> IF vt.strong = None THEN Empty
                             ELSE Strip(RawText(vt.strong[1].text)),
                 result |-> Empty,
                 date |-> Strip(safe_get_text(vt.txt_date)),
                 interview_info |-> safe_get_text_strip(vt.ul),
                 overall_review |->
                     IF ie # None /\ ie[1].dds # <<>> /\ ie[1].dds[1] # None
                     THEN Strip(safe_get_text(ie[1].dds[1])) ELSE Empty,
                 difficulty |->
                     IF ie # None THEN Strip(safe_get_text(ie[1].spr_review)) ELSE Empty,
                 interview_type |->
                     IF Len(ivs) > 0 THEN Strip(safe_get_text(ivs[1].ul)) ELSE Empty,
                 num_interviewers |->
                     IF Len(ivs) > 1 THEN Strip(safe_get_text(ivs[2].ul)) ELSE Empty,
                 process |->
                     IF Len(ivs) > 2 /\ ivs[3].ps # <<>>
                     THEN GetText(ivs[3].ps[1], <<" ">>) ELSE Empty,
                 questions |->
                     IF Len(ivs) > 3 /\ ivs[4].list_question # None
                     THEN [k \in DOMAIN ivs[4].list_question[1] |->
                              Strip(RawText(ivs[4].list_question[1][k]))]
                     ELSE <<>>,
                 tip |-> IF Len(p_tags) > 1
                         THEN GetText(p_tags[Len(p_tags)], <<" ">>)
                         ELSE Empty] >>

\* Lines 122-124: what the loop does on a page without boxes.
SaraminOnNoBoxes == "break"

\* The request of the current page with its outcome and the boxes
\* fetch_reviews_page returned (history only).
SaraminLog(outcome, boxes) ==
    requested' = Append(requested,
                        [page |-> page, outcome |-> outcome, boxes |-> boxes])

\* A crawl_saramin_reviews that gives up what it has collected when a page
\* fails or holds no box.
crawl_saramin_reviews_for_all_or_nothing ==
    /\ platform = "saramin" /\ pc = "urls_loop"
    /\ UNCHANGED <<args, ext, collected_urls, seen, first_seen, sess, orch>>
    /\ pace' = IF page > max_pages THEN pace ELSE "hot"
    /\ IF page > max_pages
       THEN pc' = "urls_end" /\ UNCHANGED <<page, inner, requested, all_reviews>>
       ELSE \/ /\ SaraminLog("raise", <<>>) /\ Break /\ UNCHANGED inner
               /\ all_reviews' = <<>>
            \/ \E boxes \in Listings(SaraminBoxes) :
                 IF boxes = <<>>
                 THEN /\ SaraminLog("empty", <<>>) /\ Break /\ UNCHANGED inner
                      /\ all_reviews' = <<>>
                 ELSE /\ SaraminLog("posts", boxes)
                      /\ posts' = boxes /\ post_i' = 1 /\ pc' = "urls_posts"
                      /\ UNCHANGED <<page, all_reviews>>

\* Lines 115-124: one pass of "for page in range(1, pages + 1)" up to the
\* loop over the boxes, or the end of the loop.
crawl_saramin_reviews_for ==
    /\ platform = "saramin" /\ pc = "urls_loop"
    /\ UNCHANGED <<args, ext, collected_urls, seen, first_seen, sess, orch, all_reviews>>
    /\ pace' = IF page > max_pages THEN pace ELSE "hot"
    /\ IF page > max_pages
       THEN pc' = "urls_end" /\ UNCHANGED <<page, inner, requested>>
       ELSE \/ \* fetch_reviews_page raised
               /\ SaraminLog("raise", <<>>) /\ Break /\ UNCHANGED inner
            \/ \E boxes \in Listings(SaraminBoxes) :
                 IF boxes = <<>>
                 THEN /\ SaraminLog("empty", <<>>) /\ LoopControl(SaraminOnNoBoxes)
                      /\ UNCHANGED inner
                 ELSE /\ SaraminLog("posts", boxes)
                      /\ posts' = boxes /\ post_i' = 1 /\ pc' = "urls_posts"
                      /\ UNCHANGED page

crawl_saramin_reviews_box ==
    /\ platform = "saramin" /\ pc = "urls_posts"
    /\ UNCHANGED <<args, ext, collected_urls, seen, first_seen, requested, sess, orch>>
    /\ pace' = IF post_i > Len(posts) THEN "cool" ELSE pace
    /\ IF post_i > Len(posts)
       THEN Continue /\ UNCHANGED <<inner, all_reviews>>
       ELSE /\ all_reviews' = all_reviews \o parse_review(posts[post_i])
            /\ post_i' = post_i + 1 /\ UNCHANGED posts
            /\ UNCHANGED <<pc, page>>

crawl_saramin_reviews_return ==
    /\ platform = "saramin" /\ pc = "urls_end"
    /\ pc' = "search_done"
    /\ UNCHANGED <<pace, args, ext, page, inner, collected_urls, seen, first_seen, requested,
                   sess, orch, all_reviews>>

\* ------------------------------------------------------ article pages ---
NL == <<"\n">>
TitleText == <<" ", "T">>
ShortElem == <<<<"c">>, <<" ">>, <<"d", " ">>>>
LongElem == <<[k \in 1..21 |-> "x"]>>
EmptyElem == << >>
IsoDate == <<"2", "0", "2", "4", "-", "0", "1">>
SpanDate == <<<<"x", "2", "0", "2", "4", ".", "0", "1", ".", "0", "2", ".">>>>

\* What fetch_blog_content reads of a Naver post page: the content
\* attribute of the og:title and article:published_time metas, and the
\* elements h3, div.se-main-container, div#postViewArea, span.se_publishDate.
NaverPages ==
    { [og_title |-> None, h3 |-> None, se_main_container |-> None,
       postViewArea |-> None, published_time |-> None, se_publishDate |-> None],
      [og_title |-> Some(TitleText), h3 |-> None, se_main_container |-> Some(ShortElem),
       postViewArea |-> None, published_time |-> Some(IsoDate), se_publishDate |-> None],
      [og_title |-> Some(Empty), h3 |-> Some(<<TitleText>>), se_main_container |-> None,
       postViewArea |-> Some(LongElem), published_time |-> None,
       se_publishDate |-> Some(SpanDate)] }

\* What the Tistory extractors read of a post page: the metas' content
\* attributes, <title>, the six content containers in selector order, and
\* <time> (its datetime attribute and its text).
TistoryPages ==
    { [og_title |-> None, title_tag |-> None,
       containers |-> <<None, None, None, None, None, None>>,
       published_time |-> None, time_tag |-> None],
      [og_title |-> Some(TitleText), title_tag |-> None,
       containers |-> <<Some(ShortElem), None, None, None, None, None>>,
       published_time |-> Some(IsoDate), time_tag |-> None],
      [og_title |-> None, title_tag |-> Some(<<TitleText>>),
       containers |-> <<Some(EmptyElem), Some(LongElem), None, Some(ShortElem), None, None>>,
       published_time |-> None,
       time_tag |-> Some([datetime |-> None, text |-> <<IsoDate>>])] }

\* What fetch_velog_content reads of a Velog post page.
VelogPages ==
    { [og_title |-> None, atom_one |-> None],
      [og_title |-> Some(TitleText), atom_one |-> Some(ShortElem)],
      [og_title |-> None, atom_one |-> Some(LongElem)] }

\* Page heights execute_script can report to scroll_page.
MaxHeight == 1
Heights == 0..MaxHeight

\* The scrollTo calls of one scroll_page are counted up to MaxScrolls; the
\* loop itself has no bound.
MaxScrolls == 2
Scrolled(n) == IF n < MaxScrolls THEN n + 1 ELSE n

\* --------------------------------------------------------- extraction ---
\* Title of fetch_blog_content / fetch_tistory_content(_selenium): the
\* og:title content if it is not empty, else the text of the fallback tag.
MetaOrTag(meta, tag) ==
    IF meta # None /\ meta[1] # Empty THEN Strip(meta[1])
    ELSE IF tag # None THEN GetText(tag[1], Empty) ELSE Empty

IsDigit(c) == c \in {"0", "1", "2", "3", "4", "5", "6", "7", "8", "9"}

\* re.match(r"\d{4}\.\d{2}\.\d{2}") at position k of s.
DateAt(s, k) ==
    /\ k + 9 <= Len(s)
    /\ \A j \in {0, 1, 2, 3, 5, 6, 8, 9} : IsDigit(s[k + j])
    /\ s[k + 4] = "." /\ s[k + 7] = "."

\* Variant of SearchDate that returns the text itself when nothing matches.
SearchDateOrRaw(s) ==
    LET hits == {k \in 1..Len(s) : DateAt(s, k)}
    IN  IF hits = {} THEN s
        ELSE LET k == CHOOSE m \in hits : \A n \in hits : m <= n
             IN  SubSeq(s, k, k + 9)

\* re.search(...).group(0), Empty when there is no match.
SearchDate(s) ==
    LET hits == {k \in 1..Len(s) : DateAt(s, k)}
    IN  IF hits = {} THEN Empty
        ELSE LET k == CHOOSE m \in hits : \A n \in hits : m <= n
             IN  SubSeq(s, k, k + 9)

\* fetch_blog_content, lines 40-77: (title, content, date) of a fetched page.
ExtractNaver(pg) ==
    [title |-> MetaOrTag(pg.og_title, pg.h3),
     content |-> IF pg.se_main_container # None THEN GetText(pg.se_main_container[1], NL)
                 ELSE IF pg.postViewArea # None THEN GetText(pg.postViewArea[1], NL)
                 ELSE Empty,
     date |-> IF pg.published_time # None /\ pg.published_time[1] # Empty
              THEN Strip(pg.published_time[1])
              ELSE IF pg.se_publishDate # None
                   THEN SearchDate(GetText(pg.se_publishDate[1], Empty))
                   ELSE Empty]

\* The date of both Tistory extractors.
TistoryDate(pg) ==
    IF pg.published_time # None THEN Strip(pg.published_time[1])
    ELSE IF pg.time_tag # None
         THEN (IF pg.time_tag[1].datetime # None /\ pg.time_tag[1].datetime[1] # Empty
               THEN pg.time_tag[1].datetime[1]
               ELSE GetText(pg.time_tag[1].text, Empty))
         ELSE Empty

\* The if/elif chain of fetch_tistory_content: the first container present.
RECURSIVE FirstPresent(_)
FirstPresent(cs) ==
    IF cs = <<>> THEN Empty
    ELSE IF Head(cs) # None THEN GetText(Head(cs)[1], NL)
    ELSE FirstPresent(Tail(cs))

\* len(content.strip()) > 20
MinContentLen == 20
LongEnough(content) == Len(Strip(content)) > MinContentLen

\* The selector loop of fetch_tistory_content_selenium: each container
\* present overwrites content; the loop stops at the first long enough.
RECURSIVE SelectorLoop(_, _)
SelectorLoop(cs, content) ==
    IF cs = <<>> THEN content
    ELSE IF Head(cs) # None
         THEN LET c == GetText(Head(cs)[1], NL)
              IN  IF LongEnough(c) THEN c ELSE SelectorLoop(Tail(cs), c)
         ELSE SelectorLoop(Tail(cs), content)

\* fetch_tistory_content, lines 179-216.
ExtractTistory(pg) ==
    [title |-> MetaOrTag(pg.og_title, pg.title_tag),
     content |-> FirstPresent(pg.containers),
     date |-> TistoryDate(pg)]

\* fetch_tistory_content_selenium, lines 124-158.
ExtractTistorySelenium(pg) ==
    [title |-> MetaOrTag(pg.og_title, pg.title_tag),
     content |-> SelectorLoop(pg.containers, Empty),
     date |-> TistoryDate(pg)]

\* fetch_velog_content, lines 89-103.
ExtractVelog(pg) ==
    [title |-> IF pg.og_title # None /\ pg.og_title[1] # Empty
               THEN Strip(pg.og_title[1]) ELSE Empty,
     content |-> IF pg.atom_one # None THEN GetText(pg.atom_one[1], NL) ELSE Empty]

NoFields == [title |-> Empty, content |-> Empty, date |-> Empty]

\* ------------------------------------------------------ orchestrators ---
disc == <<page, inner, collected_urls, seen, first_seen, requested>>

\* The dict appended to results.
Record(url, f) == [url |-> url, title |-> f.title, content |-> f.content, date |-> f.date]

\* "if t or c"
Keeps(f) == f.title # Empty \/ f.content # Empty

\* One entry of the fetch history: the URL, the strategy tried, whether the
\* request succeeded, what was extracted, and the sessions opened so far.
Attempt(url, strategy, ok, f) ==
    [url |-> url, strategy |-> strategy, ok |-> ok, title |-> f.title,
     content |-> f.content, opened |-> opened]

\* results.append(...) under the orchestrator's condition, then the next URL.
AppendAndAdvance(url, f, keep) ==
    /\ results' = IF keep THEN Append(results, Record(url, f)) ELSE results
    /\ idx' = idx + 1

\* crawl_blog_search / crawl_tistory_search / crawl_velog_search, after the
\* discoverer has returned: results = []
crawl_search_start ==
    /\ pc = "urls_done"
    /\ pc' = "search_loop"
    /\ UNCHANGED <<pace, args, ext, disc, sess, orch, all_reviews>>

\* Naver, lines 137-148: one pass of "for url in all_urls" with
\* fetch_blog_content (the request goes to the mobile host), or the return.
crawl_blog_search ==
    /\ platform = "naver" /\ pc = "search_loop"
    /\ UNCHANGED <<args, ext, disc, sess, height, all_reviews>>
    /\ pace' = IF idx > Len(collected_urls) THEN pace ELSE "cool"
    /\ IF idx > Len(collected_urls)
       THEN pc' = "search_done" /\ UNCHANGED <<idx, results, trace>>
       ELSE LET url == collected_urls[idx]
            IN  /\ UNCHANGED pc
                /\ \/ \* requests.get / raise_for_status raised
                      /\ trace' = Append(trace, Attempt(url, "static", FALSE, NoFields))
                      /\ AppendAndAdvance(url, NoFields, Keeps(NoFields))
                   \/ \E pg \in NaverPages :
                        LET f == ExtractNaver(pg)
                        IN  /\ trace' = Append(trace, Attempt(url, "static", TRUE, f))
                            /\ AppendAndAdvance(url, f, Keeps(f))

\* Variant of fetch_tistory_escalates that also falls back when the static
\* content is not long enough.
EscalatesOnShortContent(static_ok, content) == ~static_ok \/ ~LongEnough(content)

\* Variant of fetch_tistory_escalates that stays with Selenium once a URL
\* of the run has gone through it.
EscalatesSticky(static_ok, content) ==
    ~static_ok \/ \E k \in DOMAIN trace : trace[k].strategy = "dynamic"

\* Variant of fetch_tistory_escalates without the fallback.
EscalatesNever(static_ok, content) == FALSE

\* fetch_tistory_content, lines 172-177 and 215-216: whether the Selenium
\* fallback is called, given the outcome of the static request and the
\* content extracted from it.
fetch_tistory_escalates(static_ok, content) == ~static_ok

\* Tistory, lines 228-238: one pass of "for url in collected_urls" with the
\* static part of fetch_tistory_content, or the return.
crawl_tistory_search ==
    /\ platform = "tistory" /\ pc = "search_loop"
    /\ UNCHANGED <<args, ext, disc, sess, height, all_reviews>>
    /\ IF idx > Len(collected_urls)
       THEN pc' = "search_done" /\ UNCHANGED <<idx, results, trace, pace>>
       ELSE LET url == collected_urls[idx]
            IN  \/ \* requests.get / raise_for_status raised
                   /\ IF fetch_tistory_escalates(FALSE, Empty)
                      THEN /\ trace' = trace \o <<Attempt(url, "static", FALSE, NoFields),
                                                  Attempt(url, "dynamic", TRUE, NoFields)>>
                           /\ pc' = "sel_init" /\ pace' = "hot"
                           /\ UNCHANGED <<idx, results>>
                      ELSE /\ trace' = Append(trace, Attempt(url, "static", FALSE, NoFields))
                           /\ AppendAndAdvance(url, NoFields, Keeps(NoFields))
                           /\ pace' = "cool"
                           /\ UNCHANGED pc
                \/ \E pg \in TistoryPages :
                     LET f == ExtractTistory(pg)
                     IN  IF fetch_tistory_escalates(TRUE, f.content)
                         THEN /\ trace' = trace \o <<Attempt(url, "static", TRUE, f),
                                                     Attempt(url, "dynamic", TRUE, NoFields)>>
                              /\ pc' = "sel_init" /\ pace' = "hot"
                              /\ UNCHANGED <<idx, results>>
                         ELSE /\ trace' = Append(trace, Attempt(url, "static", TRUE, f))
                              /\ AppendAndAdvance(url, f, Keeps(f))
                              /\ pace' = "cool"
                              /\ UNCHANGED pc

\* fetch_tistory_content_selenium, line 117: driver = init_driver()
fetch_tistory_content_selenium_init ==
    /\ platform = "tistory" /\ pc = "sel_init"
    /\ init_driver("sel_get")
    /\ UNCHANGED <<pace, args, ext, disc, orch, all_reviews>>

\* Lines 118-120: driver.get(url), the settle delay, and the first height
\* scroll_page reads.  What driver.get or execute_script raises leaves the
\* function with the session open.
fetch_tistory_content_selenium_get ==
    /\ platform = "tistory" /\ pc = "sel_get"
    /\ \/ pc' = "raised" /\ pace' = "hot" /\ UNCHANGED last_height
       \/ \E h \in Heights : last_height' = h /\ pc' = "sel_scroll" /\ pace' = "cool"
    /\ UNCHANGED <<args, ext, disc, sess, idx, results, trace, new_height, scrolls,
                   all_reviews>>

\* A scroll_page that leaves the loop as soon as the page has stopped
\* growing, whether or not its height equals the one before.
scroll_page_until_no_growth ==
    /\ platform = "tistory" /\ pc = "sel_scroll"
    /\ \/ pc' = "raised" /\ UNCHANGED height
       \/ \E h \in Heights :
            /\ new_height' = h
            /\ scrolls' = Scrolled(scrolls)
            /\ IF h <= last_height
               THEN pc' = "sel_source" /\ UNCHANGED last_height
               ELSE last_height' = h /\ UNCHANGED pc
    /\ UNCHANGED <<pace, args, ext, disc, sess, idx, results, trace, all_reviews>>

\* scroll_page, lines 43-49: one pass of "while True": the scroll, the
\* pause, the height read after it, and the break or the assignment.  What
\* execute_script raises leaves the function.
scroll_page ==
    /\ platform = "tistory" /\ pc = "sel_scroll"
    /\ \/ pc' = "raised" /\ UNCHANGED height
       \/ \E h \in Heights :
            /\ new_height' = h
            /\ scrolls' = Scrolled(scrolls)
            /\ IF h = last_height
               THEN pc' = "sel_source" /\ UNCHANGED last_height
               ELSE last_height' = h /\ UNCHANGED pc
    /\ UNCHANGED <<pace, args, ext, disc, sess, idx, results, trace, all_reviews>>

\* Lines 121-158, and the orchestrator's lines 230-237 on the tuple
\* returned: page_source, driver.quit(), the extraction, results.append.
fetch_tistory_content_selenium_extract ==
    /\ platform = "tistory" /\ pc = "sel_source"
    /\ UNCHANGED <<args, ext, disc, opened, trace, all_reviews>>
    /\ last_height' = 0 /\ new_height' = 0 /\ scrolls' = 0
    /\ \/ \* driver.page_source raised
          /\ pc' = "raised" /\ UNCHANGED <<drivers, idx, results, pace>>
       \/ \E pg \in TistoryPages :
            LET f == ExtractTistorySelenium(pg)
            IN  /\ driver_quit
                /\ AppendAndAdvance(collected_urls[idx], f, Keeps(f))
                /\ pc' = "search_loop" /\ pace' = "cool"

\* crawl_velog_search, line 110: whether the dict is appended to results.
VelogKeeps(f) == TRUE

\* Velog, lines 108-117: one pass of "for url, date in items" with
\* fetch_velog_content, or the return.
crawl_velog_search ==
    /\ platform = "velog" /\ pc = "search_loop"
    /\ UNCHANGED <<args, ext, disc, sess, height, all_reviews>>
    /\ pace' = IF idx > Len(collected_urls) THEN pace ELSE "cool"
    /\ IF idx > Len(collected_urls)
       THEN pc' = "search_done" /\ UNCHANGED <<idx, results, trace>>
       ELSE LET item == collected_urls[idx]
                none == [title |-> Empty, content |-> Empty, date |-> item.date]
            IN  /\ UNCHANGED pc
                /\ \/ \* requests.get / raise_for_status raised
                      /\ trace' = Append(trace, Attempt(item.url, "static", FALSE, none))
                      /\ AppendAndAdvance(item.url, none, VelogKeeps(none))
                   \/ \E pg \in VelogPages :
                        LET e == ExtractVelog(pg)
                            f == [title |-> e.title, content |-> e.content,
                                  date |-> item.date]
                        IN  /\ trace' = Append(trace, Attempt(item.url, "static", TRUE, f))
                            /\ AppendAndAdvance(item.url, f, VelogKeeps(f))

\* __main__, after the orchestrator has returned: open(args.output_path, "w")
\* and json.dump.  The path is opened here for the first time: it can be
\* written, or open() raises.
main_dump ==
    /\ pc = "search_done"
    /\ pc' \in {"done", "raised_output"}
    /\ UNCHANGED <<pace, args, ext, disc, sess, orch, all_reviews>>

\* ------------------------------------------------------ specification ---
Next ==
    \/ crawl_blog_urls_for
    \/ crawl_blog_urls_post
    \/ crawl_blog_urls_return
    \/ crawl_tistory_urls_selenium_init
    \/ crawl_tistory_urls_selenium_for
    \/ crawl_tistory_urls_selenium_post
    \/ crawl_tistory_urls_selenium_return
    \/ crawl_velog_urls_selenium_init
    \/ crawl_velog_urls_selenium_get
    \/ crawl_velog_urls_selenium_for
    \/ crawl_velog_urls_selenium_post
    \/ crawl_velog_urls_selenium_return
    \/ crawl_saramin_reviews_for
    \/ crawl_saramin_reviews_box
    \/ crawl_saramin_reviews_return
    \/ crawl_search_start
    \/ crawl_blog_search
    \/ crawl_tistory_search
    \/ fetch_tistory_content_selenium_init
    \/ fetch_tistory_content_selenium_get
    \/ scroll_page
    \/ fetch_tistory_content_selenium_extract
    \/ crawl_velog_search
    \/ main_dump

Spec == Init /\ [][Next]_vars

\* A run of crawler_tistory.py on its own.  The script is one thread of
\* control that keeps running: a step that can be taken is taken.  What the
\* network and the browser answer stays free.

\* The runs of TistorySpec search at most this many listing pages.
MaxListingPages == 1
TistoryInit == Init /\ platform = "tistory" /\ max_pages <= MaxListingPages

TistoryNext ==
    \/ crawl_tistory_urls_selenium_init
    \/ crawl_tistory_urls_selenium_for
    \/ crawl_tistory_urls_selenium_post
    \/ crawl_tistory_urls_selenium_return
    \/ crawl_search_start
    \/ crawl_tistory_search
    \/ fetch_tistory_content_selenium_init
    \/ fetch_tistory_content_selenium_get
    \/ scroll_page
    \/ fetch_tistory_content_selenium_extract
    \/ main_dump

TistorySpec == TistoryInit /\ [][TistoryNext]_vars /\ WF_vars(TistoryNext)

\* -------------------------------------------- extractors on their own ---
\* The parsing part of each fetch function applied to one parsed page,
\* over pages richer than the ones the runs above fetch.
Blank == <<" ">>
Dots == <<".">>
Year == <<"2", "0", "2", "4">>
Two == <<"0", "1">>
DateToken == Year \o Dots \o Two \o Dots \o Two

\* The content attribute of a meta tag: no tag, content="", blank, text.
TitleMetas == {None, Some(Empty), Some(Blank), Some(TitleText)}
DateMetas == {None, Some(Empty), Some(Blank), Some(IsoDate)}

\* h3 / <title>: absent, without text, with text.
TitleTags == {None, Some(EmptyElem), Some(<<TitleText>>)}

\* A content container: absent, without text, with (short) text.
Containers == {None, Some(EmptyElem), Some(ShortElem)}

\* span.se_publishDate: absent, or its text nodes.
PublishSpans ==
    { None, Some(EmptyElem), Some(SpanDate),
      Some(<<Year \o Dots \o <<"1">> \o Dots \o <<"2">>>>),
      Some(<<Year \o Dots \o Two \o Dots \o <<"0">>>>),
      Some(<<Year \o Two \o Two>>),
      Some(<<Year \o Dots, Blank \o Two \o Dots \o Two>>),
      Some(<<<<"9">> \o DateToken \o <<"7">>, DateToken>>),
      Some(<<<<"a", "b">>>>) }

\* <time>: absent, or its datetime attribute and its text nodes.
TimeTags ==
    { None, Some([datetime |-> None, text |-> EmptyElem]),
      Some([datetime |-> None, text |-> <<IsoDate>>]),
      Some([datetime |-> Some(Blank), text |-> <<IsoDate>>]) }

NaverDocs ==
    [og_title : TitleMetas, h3 : TitleTags, se_main_container : Containers,
     postViewArea : Containers, published_time : DateMetas,
     se_publishDate : PublishSpans]

TistoryDocs ==
    [og_title : TitleMetas, title_tag : TitleTags,
     containers : [1..6 -> Containers] \cup {pg.containers : pg \in TistoryPages},
     published_time : {None, Some(Blank), Some(IsoDate)}, time_tag : TimeTags]

VelogDocs == [og_title : TitleMetas, atom_one : Containers \cup {Some(LongElem)}]

\* div.view_cont with the first n of the div.info_view elements of FullCont.
ContOf(n) == [FullCont EXCEPT !.info_views = SubSeq(@, 1, n)]

\* div.view_cont whose only p.txt_desc is the one of the third
\* div.info_view, and one with two p.txt_desc and no div.info_view.
ProcessOnlyCont == [ContOf(3) EXCEPT !.other_ps = <<>>]
TwoPCont == [BareCont EXCEPT !.other_ps = <<ElemP, ElemQ>>]

SaraminDocs ==
    [view_title : {None, Some(BareTitle), Some(FullTitle)},
     view_cont : {None, Some(BareCont), Some(OnePCont), Some(ProcessOnlyCont),
                  Some(TwoPCont)}
                 \cup {Some(ContOf(n)) : n \in 0..4}]

ExtractInputs ==
    [fn : {"fetch_blog_content"}, page : NaverDocs]
    \cup [fn : {"fetch_tistory_content", "fetch_tistory_content_selenium"},
          page : TistoryDocs]
    \cup [fn : {"fetch_velog_content"}, page : VelogDocs]
    \cup [fn : {"parse_review"}, page : SaraminDocs]

\* The script a function belongs to.
ScriptOf(fn) ==
    CASE fn = "fetch_blog_content" -> "naver"
      [] fn \in {"fetch_tistory_content", "fetch_tistory_content_selenium"} -> "tistory"
      [] fn = "fetch_velog_content" -> "velog"
      [] OTHER -> "saramin"

ExtractInit ==
    /\ doc \in ExtractInputs
    /\ fields = None
    /\ platform = ScriptOf(doc.fn)
    /\ max_pages = 0
    /\ max_articles = 0
    /\ pc = "extract"
    /\ Fresh

\* The function returns what it extracted.
Return(f) ==
    /\ fields' = Some(f)
    /\ pc' = "extracted"
    /\ UNCHANGED <<pace, args, disc, sess, orch, all_reviews, doc>>

\* fetch_blog_content from "soup = BeautifulSoup(...)" on.
fetch_blog_content_parse ==
    /\ pc = "extract" /\ doc.fn = "fetch_blog_content"
    /\ Return(ExtractNaver(doc.page))

\* fetch_tistory_content from "soup = BeautifulSoup(...)" on.
fetch_tistory_content_parse ==
    /\ pc = "extract" /\ doc.fn = "fetch_tistory_content"
    /\ Return(ExtractTistory(doc.page))

\* fetch_tistory_content_selenium from "soup = BeautifulSoup(...)" on.
fetch_tistory_content_selenium_parse ==
    /\ pc = "extract" /\ doc.fn = "fetch_tistory_content_selenium"
    /\ Return(ExtractTistorySelenium(doc.page))

\* fetch_velog_content from "soup = BeautifulSoup(...)" on.
fetch_velog_content_parse ==
    /\ pc = "extract" /\ doc.fn = "fetch_velog_content"
    /\ Return(ExtractVelog(doc.page))

\* parse_review on one div.box_review.
parse_review_call ==
    /\ pc = "extract" /\ doc.fn = "parse_review"
    /\ Return(parse_review(doc.page))

ExtractNext ==
    \/ fetch_blog_content_parse
    \/ fetch_tistory_content_parse
    \/ fetch_tistory_content_selenium_parse
    \/ fetch_velog_content_parse
    \/ parse_review_call

ExtractSpec == ExtractInit /\ [][ExtractNext]_vars


\* -------------------------------------------------------- properties ---
\* The URLs of the discoverer's sequence (Velog collects (url, date) pairs).
DiscoveredUrls ==
    IF platform = "velog"
    THEN [k \in DOMAIN collected_urls |-> collected_urls[k].url]
    ELSE collected_urls

Take(s, n) == SubSeq(s, 1, IF n < Len(s) THEN n ELSE Len(s))

\* The URL of a listing match, as the discoverer would collect it.
PostUrl(post) == IF platform = "velog" THEN urljoin(post.href) ELSE post

\* Number of calls of the dynamic (Selenium) fetch for url.
DynCalls(url) ==
    Cardinality({k \in DOMAIN trace : trace[k].url = url /\ trace[k].strategy = "dynamic"})

\* The orchestrator is done with url: its fetch returned and the loop moved on.
Fetched(url) == \E k \in DOMAIN DiscoveredUrls : DiscoveredUrls[k] = url /\ k < idx

\* C1: when a discoverer returns, its sequence is no longer than
\* max_articles (for every max_pages >= 0, max_articles >= 0 and every
\* sequence of listing pages).
C1_LengthAtMostMaxArticles ==
    pc = "urls_done" => Len(collected_urls) <= max_articles

\* C2: in every state of every discoverer, intermediate states of the loops
\* included, no URL occurs twice in the collected sequence.
C2_NoDuplicateUrls ==
    \A i, j \in DOMAIN DiscoveredUrls :
        i # j => DiscoveredUrls[i] # DiscoveredUrls[j]

\* C2 witness: Velog, second scroll iteration; the page holds two anchors
\* whose different hrefs join to one URL, which the first iteration had
\* collected; both were processed and the sequence still holds one URL.
C2_Witness ==
    /\ platform = "velog" /\ pc = "urls_posts" /\ page = 2
    /\ Len(posts) = 2 /\ post_i > Len(posts)
    /\ posts[1].href # posts[2].href
    /\ PostUrl(posts[1]) = PostUrl(posts[2])
    /\ requested[1].outcome = "posts"
    /\ first_seen = <<PostUrl(posts[1])>>
    /\ DiscoveredUrls = first_seen
    /\ Len(collected_urls) < max_articles

\* C3: every record of the result collection has a non-empty title or a
\* non-empty content, on every platform.
C3_RecordsHaveTitleOrContent ==
    \A k \in DOMAIN results :
        results[k].title # Empty \/ results[k].content # Empty

\* C4 as stated: a URL whose static fetch succeeded with content shorter
\* than the threshold has had exactly one dynamic fetch by the time its
\* fetch returns.
C4_ShortContentEscalatesOnce ==
    \A k \in DOMAIN trace :
        ( /\ trace[k].strategy = "static" /\ trace[k].ok
          /\ Len(trace[k].content) < MinContentLen
          /\ Fetched(trace[k].url) )
        => DynCalls(trace[k].url) = 1

\* C4 as amended: a URL whose static fetch succeeded with content shorter
\* than the threshold has had no dynamic fetch when its fetch returns, and
\* what is recorded for it is the static extraction.
C4_ShortContentNoEscalation ==
    \A k \in DOMAIN trace :
        ( /\ trace[k].strategy = "static" /\ trace[k].ok
          /\ Len(trace[k].content) < MinContentLen
          /\ Fetched(trace[k].url) )
        => /\ DynCalls(trace[k].url) = 0
           /\ \A r \in Range(results) :
                r.url = trace[k].url
                => r.title = trace[k].title /\ r.content = trace[k].content

\* C4 witness: a Tistory URL fetched statically with short, non-empty
\* content, recorded, and the orchestrator past it.
C4_Witness ==
    /\ platform = "tistory"
    /\ \E k \in DOMAIN trace :
         /\ trace[k].strategy = "static" /\ trace[k].ok
         /\ trace[k].content # Empty /\ Len(trace[k].content) < MinContentLen
         /\ Fetched(trace[k].url)
         /\ \E r \in Range(results) : r.url = trace[k].url

\* C5: in fetch_tistory_content the Selenium fetch is called exactly when
\* the static request raised; after a static request that succeeded, no
\* session was opened for the URL and what is recorded for it is the static
\* extraction, empty or short as it may be.
C5_DynamicIffStaticRaised ==
    platform = "tistory" =>
    \A k \in DOMAIN trace :
        trace[k].strategy = "static" =>
          /\ DynCalls(trace[k].url) = (IF trace[k].ok THEN 0 ELSE 1)
          /\ trace[k].ok =>
               /\ IF k = Len(trace) THEN opened = trace[k].opened
                  ELSE trace[k + 1].opened = trace[k].opened
               /\ \A r \in Range(results) :
                    r.url = trace[k].url
                    => r.title = trace[k].title /\ r.content = trace[k].content
               /\ (trace[k].title # Empty \/ trace[k].content # Empty)
                  => \E r \in Range(results) : r.url = trace[k].url

\* C5 witness: a Tistory run over two URLs, one whose static request raised
\* (and went through Selenium) and one whose static request succeeded with
\* an empty content, both finished.
C5_Witness ==
    /\ platform = "tistory" /\ pc = "search_done"
    /\ \E j, k \in DOMAIN trace :
         /\ trace[j].strategy = "static" /\ ~trace[j].ok
         /\ DynCalls(trace[j].url) = 1
         /\ trace[k].strategy = "static" /\ trace[k].ok
         /\ trace[k].content = Empty /\ trace[k].title # Empty
         /\ DynCalls(trace[k].url) = 0

\* C6: on every platform, a URL whose static fetch failed (non-2xx status)
\* has no record in the result collection.
C6_FailedStaticFetchSkipped ==
    \A k \in DOMAIN trace :
        (trace[k].strategy = "static" /\ ~trace[k].ok)
        => \A r \in Range(results) : r.url # trace[k].url

\* C7: when an operation that opened a browser session has ended, by
\* return or by an exception, no session is open.
C7_SessionsQuitOnExit ==
    pc \in {"urls_done", "search_loop", "search_done", "done", "raised", "raised_init",
           "raised_output"}
    => drivers = {}

\* C8: no failure of a single listing page or article page ends the run:
\* the run never stops on an exception raised for one page.
C8_NoPageFailureEndsRun == pc # "raised"

C10_FirstSeenOrder ==
    pc = "urls_done" => DiscoveredUrls = Take(first_seen, max_articles)

\* C11: a run whose output path cannot be opened for writing is aborted
\* before any crawling: when open() raises, no listing request and no
\* article request has been issued and no browser session has been opened.
C11_OutputAbortBeforeCrawl ==
    pc = "raised_output" => requested = <<>> /\ trace = <<>> /\ opened = 0

\* The text of one rule of a fallback chain: of a meta tag's content
\* attribute, of an element.
MetaText(meta) == IF meta = None THEN Empty ELSE Strip(meta[1])
ElemText(el, sep) == IF el = None THEN Empty ELSE GetText(el[1], sep)

\* The first non-empty text of a chain, Empty when there is none.
RECURSIVE FirstNonEmpty(_)
FirstNonEmpty(texts) ==
    IF texts = <<>> THEN Empty
    ELSE IF Head(texts) # Empty THEN Head(texts) ELSE FirstNonEmpty(Tail(texts))

\* The chains of rule texts of a page, by field.
TitleChain(pg) ==
    IF doc.fn = "fetch_blog_content" THEN <<MetaText(pg.og_title), ElemText(pg.h3, Empty)>>
    ELSE IF doc.fn = "fetch_velog_content" THEN <<MetaText(pg.og_title)>>
    ELSE <<MetaText(pg.og_title), ElemText(pg.title_tag, Empty)>>

ContentChain(pg) ==
    IF doc.fn = "fetch_blog_content"
    THEN <<ElemText(pg.se_main_container, NL), ElemText(pg.postViewArea, NL)>>
    ELSE IF doc.fn = "fetch_velog_content" THEN <<ElemText(pg.atom_one, NL)>>
    ELSE [k \in 1..6 |-> ElemText(pg.containers[k], NL)]

DateChain(pg) ==
    IF doc.fn = "fetch_blog_content"
    THEN <<MetaText(pg.published_time), SearchDate(ElemText(pg.se_publishDate, Empty))>>
    ELSE <<MetaText(pg.published_time),
           IF pg.time_tag = None THEN Empty
           ELSE FirstNonEmpty(<<MetaText(pg.time_tag[1].datetime),
                                GetText(pg.time_tag[1].text, Empty)>>)>>

\* C12: every field an extractor returns is the text of the first rule of
\* its chain whose trimmed text is not empty, and is empty only when every
\* rule's text is empty; an element that is present without text does not
\* keep a later rule from supplying the field.
C12_FirstNonEmptyRuleWins ==
    pc = "extracted" =>
        /\ fields[1].title = FirstNonEmpty(TitleChain(doc.page))
        /\ fields[1].content = FirstNonEmpty(ContentChain(doc.page))
        /\ doc.fn # "fetch_velog_content"
           => fields[1].date = FirstNonEmpty(DateChain(doc.page))

\* This step issues an outbound request: a listing request (or scroll), an
\* article request, or a driver.get of the search page or of an article.
IssuesRequest ==
    \/ requested' # requested
    \/ trace' # trace
    \/ pc \in {"urls_get", "sel_get"} /\ pc' # pc

\* C13: a politeness delay separates any two consecutive outbound
\* requests, on every path through the loops: no request is issued while no
\* time.sleep has run since the request before it.
C13_DelayBetweenRequests == [][IssuesRequest => pace # "hot"]_vars

\* C14: in Naver and Tistory discovery every collected URL starts with
\* "http" and is neither "#" nor "javascript:void(0)", with or without
\* surrounding whitespace; an anchor whose link is empty, a placeholder or
\* relative is skipped and the other anchors of the page are collected as
\* if it were not there.
C14_NoPlaceholderOrRelativeLink ==
    platform \in {"naver", "tistory"} =>
        /\ \A url \in Range(collected_urls) :
              /\ StartsWith(url, Http)
              /\ Strip(url) \notin {Empty, Hash, JsVoid}
        /\ pc = "urls_posts" /\ Len(collected_urls) < max_articles
           => \A k \in 1..(post_i - 1) :
                StartsWith(posts[k], Http) => posts[k] \in Range(collected_urls)

\* C14 witness: a Naver listing page with a placeholder link followed by an
\* absolute URL has been processed, and the discoverer returned that URL
\* alone.
C14_Witness ==
    /\ platform = "naver" /\ pc = "urls_done"
    /\ Len(posts) = 2
    /\ posts[1] \in {Hash, PaddedHash, JsVoid, RelLink, Empty}
    /\ posts[2] = UrlA
    /\ collected_urls = <<UrlA>>

\* The URLs of the calls of the adapter's fetch function, in call order
\* (the Selenium fallback runs inside the call of fetch_tistory_content).
FetchCalls ==
    LET calls == SelectSeq(trace, LAMBDA a : a.strategy = "static")
    IN  [k \in DOMAIN calls |-> calls[k].url]

\* C15: when the orchestrator returns, the fetch function has been called
\* exactly once per discovered URL, in discovery order; there is at most
\* one record per URL, every record carries the non-empty URL it was
\* fetched for, and #records <= #discovered <= max_articles.
C15_EachUrlFetchedOnce ==
    (platform # "saramin" /\ pc = "search_done") =>
        /\ FetchCalls = DiscoveredUrls
        /\ \A i, j \in DOMAIN results : i # j => results[i].url # results[j].url
        /\ \A r \in Range(results) : r.url # Empty /\ r.url \in Range(DiscoveredUrls)
        /\ Len(results) <= Len(DiscoveredUrls)
        /\ Len(DiscoveredUrls) <= max_articles

\* The page of the extractor holds none of the elements it looks for.
NoExpectedElements ==
    IF doc.fn = "fetch_tistory_content" \/ doc.fn = "fetch_tistory_content_selenium"
    THEN /\ \A k \in 1..6 : doc.page.containers[k] = None
         /\ \A f \in DOMAIN doc.page \ {"containers"} : doc.page[f] = None
    ELSE \A f \in DOMAIN doc.page : doc.page[f] = None

ReviewKeys ==
    {"company", "result", "date", "interview_info", "overall_review", "difficulty",
     "interview_type", "num_interviewers", "process", "questions", "tip"}

\* f holds exactly the fields of keys, all of them empty.
AllEmpty(f, keys) == DOMAIN f = keys /\ \A k \in keys : f[k] = Empty

ArticleKeys == IF doc.fn = "fetch_velog_content" THEN {"title", "content"}
               ELSE {"title", "content", "date"}

\* C16 as stated: an extractor applied to a page with none of the expected
\* elements returns every field, empty; for parse_review, a dict with all
\* of its keys and empty values.
C16_NoElementsAllFieldsEmpty ==
    (pc = "extracted" /\ NoExpectedElements) =>
        IF doc.fn = "parse_review"
        THEN fields[1] # None /\ AllEmpty(fields[1][1], ReviewKeys)
        ELSE AllEmpty(fields[1], ArticleKeys)

\* C16 as amended: the step of an extractor is a return, whatever the page
\* (none raises).  The article extractors of Naver, Tistory and Velog
\* return every field, empty, for a page with none of the expected
\* elements.  parse_review returns None for a box without div.view_title
\* or without div.view_cont, and a dict with all of its keys and empty
\* values for a box that holds both and nothing inside them.
C16_NoElementsEmptyOrSkipped ==
    /\ [][pc = "extract" => pc' = "extracted" /\ fields' # None]_vars
    /\ [](pc = "extracted" =>
            IF doc.fn = "parse_review"
            THEN /\ (doc.page.view_title = None \/ doc.page.view_cont = None)
                    => fields[1] = None
                 /\ (doc.page.view_title = Some(BareTitle)
                     /\ doc.page.view_cont = Some(BareCont))
                    => fields[1] # None /\ AllEmpty(fields[1][1], ReviewKeys)
            ELSE /\ DOMAIN fields[1] = ArticleKeys
                 /\ NoExpectedElements => AllEmpty(fields[1], ArticleKeys))

\* C16 witness: parse_review has returned a dict for a box whose
\* div.view_title and div.view_cont are both there and empty.
C16_Witness ==
    /\ pc = "extracted" /\ doc.fn = "parse_review"
    /\ doc.page = [view_title |-> Some(BareTitle), view_cont |-> Some(BareCont)]
    /\ fields[1] # None
    /\ fields[1][1].questions = <<>>

\* C17: in a Tistory run the first attempt for every URL is the static
\* request, also after a URL that went through Selenium, and Selenium is
\* used for a URL only after that URL's own static request has failed.
C17_EscalationPerUrl ==
    platform = "tistory" =>
    \A k \in DOMAIN trace :
        /\ (k = 1 \/ trace[k - 1].url # trace[k].url) => trace[k].strategy = "static"
        /\ trace[k].strategy = "dynamic" =>
              /\ k > 1
              /\ trace[k - 1].url = trace[k].url
              /\ trace[k - 1].strategy = "static"
              /\ ~trace[k - 1].ok

\* C17 witness: a Tistory run that has returned; its first URL went through
\* Selenium, its second URL was fetched statically and only statically.
C17_Witness ==
    /\ platform = "tistory" /\ pc = "search_done"
    /\ Len(trace) = 3
    /\ trace[1].strategy = "static" /\ ~trace[1].ok
    /\ trace[2].strategy = "dynamic" /\ trace[2].url = trace[1].url
    /\ trace[3].strategy = "static" /\ trace[3].ok /\ trace[3].url # trace[1].url
    /\ opened = 2

\* The discoverer has left its loop without an exception.
DiscoveryEnded ==
    pc \in {"urls_end", "urls_done", "search_loop", "search_done", "done", "raised_output"}

\* C18 as stated: Velog discovery performs at most max_pages scroll
\* iterations and stops as soon as max_articles URLs are collected or a
\* scroll iteration yields no new candidate: such an iteration is the last.
C18_StopsOnCapOrNoNewCandidate ==
    platform = "velog" =>
        /\ Len(requested) <= max_pages
        /\ (pc = "urls_loop" /\ page > 1) => Len(collected_urls) < max_articles
        /\ \A k \in DOMAIN requested :
              requested[k].outcome \in {"empty", "stale"} => k = Len(requested)

\* C18 as amended: Velog discovery performs at most max_pages scroll
\* iterations, numbered 1, 2, ...; it scrolls again only while fewer than
\* max_articles URLs are collected at the end of an iteration, and that is
\* its only early stop: when it ends after fewer than max_pages iterations,
\* max_articles URLs are collected, whether or not an iteration yielded no
\* new candidate.
C18_StopsOnCapOnly ==
    platform = "velog" =>
        /\ Len(requested) <= max_pages
        /\ \A k \in DOMAIN requested : requested[k].page = k
        /\ (pc = "urls_loop" /\ page > 1) => Len(collected_urls) < max_articles
        /\ (DiscoveryEnded /\ Len(requested) < max_pages)
           => Len(collected_urls) >= max_articles

\* C18 witness: a Velog discovery whose first scroll iteration showed no
\* candidate went on to a second one, collected a URL there and returned.
C18_Witness ==
    /\ platform = "velog" /\ pc = "urls_done"
    /\ Len(requested) = 2
    /\ requested[1].outcome = "empty" /\ requested[2].outcome = "posts"
    /\ Len(collected_urls) = 1 /\ max_articles = 2

\* d is four digits, a dot, two digits, a dot, two digits.
IsDateToken(d) ==
    /\ Len(d) = 10
    /\ \A j \in {1, 2, 3, 4, 6, 7, 9, 10} : IsDigit(d[j])
    /\ d[5] = "." /\ d[8] = "."

\* s holds a date token.
HasDateToken(s) == \E k \in 1..(Len(s) - 9) : IsDateToken(SubSeq(s, k, k + 9))

\* fetch_blog_content takes the date from span.se_publishDate: there is no
\* article:published_time meta with a content.
DateFromSpan ==
    /\ doc.fn = "fetch_blog_content"
    /\ doc.page.published_time \in {None, Some(Empty)}
    /\ doc.page.se_publishDate # None

\* C19: a date taken from the Naver span.se_publishDate is a token of shape
\* DDDD.DD.DD or the empty string, and it is empty for every span text
\* that holds no such token: never the raw text or a part of it.
C19_SpanDateIsTokenOrEmpty ==
    (pc = "extracted" /\ DateFromSpan) =>
        LET text == GetText(doc.page.se_publishDate[1], Empty)
            date == fields[1].date
        IN  /\ date = Empty \/ IsDateToken(date)
            /\ ~HasDateToken(text) => date = Empty
            /\ HasDateToken(text) => date # Empty

\* C19 witness: the span text holds a token between other characters, and
\* the date returned is that token.
C19_Witness ==
    /\ pc = "extracted" /\ DateFromSpan
    /\ doc.page.se_publishDate = Some(SpanDate)
    /\ fields[1].date = Year \o Dots \o Two \o Dots \o <<"0", "2">>

\* crawl_blog_urls is running.
InNaverDiscovery == platform = "naver" /\ pc \in {"urls_loop", "urls_posts", "urls_end"}

\* A number that every step of crawl_blog_urls makes smaller: the pages
\* left, then the anchors left on the current page.
NaverRank ==
    LET w == MaxAnchors + 3
    IN  CASE pc = "urls_loop" -> (max_pages + 1 - page) * w + w - 1
          [] pc = "urls_posts" -> (max_pages + 1 - page) * w + Len(posts) + 2 - post_i
          [] pc = "urls_end" -> 1
          [] OTHER -> 0

\* C20: crawl_blog_urls requests listing pages in strictly increasing order
\* starting at 1, each at most once and at most max_pages in all, with
\* start = 15 * page - 14, and it terminates whatever the requests return:
\* while it runs it can always take a step, every step is one of finitely
\* many to the return, and the count of those left never goes below zero.
C20_PagedDiscoveryTerminates ==
    /\ [](platform = "naver" =>
            /\ Len(requested) <= max_pages
            /\ requested # <<>> => requested[1].page = 1
            /\ \A j, k \in DOMAIN requested :
                  j < k => requested[j].page < requested[k].page
            /\ \A k \in DOMAIN requested :
                  requested[k].start = 15 * requested[k].page - 14
            /\ NaverRank >= 0
            /\ InNaverDiscovery => ENABLED Next)
    /\ [][InNaverDiscovery => NaverRank' < NaverRank]_vars

\* C20 witness: crawl_blog_urls has returned after requesting pages 1 and
\* 2, the first of which failed.
C20_Witness ==
    /\ platform = "naver" /\ pc = "urls_done"
    /\ Len(requested) = 2
    /\ requested[1].outcome = "raise"
    /\ requested[2].page = 2 /\ requested[2].start = 16

\* ------------------------------------------------------------- C21 ---
\* The run has ended, by the return of the script or by an exception.
Ended == pc \in {"done", "raised", "raised_init", "raised_output"}

\* C21: scroll_page scrolls at least once, goes on scrolling while the
\* height read after the pause differs from the one before, and returns at
\* the first pass in which the two are equal, without another scroll; a run
\* in which the page height eventually stops changing ends, so a dynamic
\* render returns exactly when the heights it reads stabilize.
C21_ScrollUntilHeightStable ==
    /\ [](pc = "sel_source" => new_height = last_height /\ scrolls >= 1)
    /\ [][pc = "sel_scroll" /\ pc' # "raised"
            => /\ scrolls' = Scrolled(scrolls)
               /\ (pc' = "sel_source") <=> (new_height' = last_height)
               /\ (pc' = "sel_scroll") <=> (new_height' # last_height)
               /\ last_height' = new_height']_vars
    /\ [][pc = "sel_source" => pc' # "sel_scroll" /\ scrolls' \in {0, scrolls}]_vars
    /\ (<>[][FALSE]_last_height) => <>Ended

\* C21 witness: scroll_page has returned after more than one scroll: the
\* first pass saw the height change, the last one did not.
C21_Witness ==
    /\ pc = "sel_source"
    /\ scrolls >= 2
    /\ new_height = last_height
    /\ last_height = MaxHeight

\* ------------------------------------------------------------- C22 ---
\* The number of p.txt_desc elements inside a div.view_cont, at any depth.
RECURSIVE PCount(_)
PCount(ivs) == IF ivs = <<>> THEN 0 ELSE Len(Head(ivs).ps) + PCount(Tail(ivs))

\* The last p.txt_desc of a div.view_cont that holds one: the last one
\* outside the div.info_view elements, which follow them, or else the last
\* one of the last div.info_view that has any.
RECURSIVE LastInnerP(_)
LastInnerP(ivs) ==
    LET iv == ivs[Len(ivs)]
    IN  IF iv.ps # <<>> THEN iv.ps[Len(iv.ps)]
        ELSE LastInnerP(SubSeq(ivs, 1, Len(ivs) - 1))

LastP(vc) ==
    IF vc.other_ps # <<>> THEN vc.other_ps[Len(vc.other_ps)]
    ELSE LastInnerP(vc.info_views)

\* C22: in the dict parse_review returns, tip is the text of the last
\* p.txt_desc inside div.view_cont when there is more than one, and the
\* empty string when there is none or one; result is the empty string.
C22_TipIsLastOfSeveral ==
    (pc = "extracted" /\ doc.fn = "parse_review" /\ fields[1] # None) =>
        LET vc == doc.page.view_cont[1]
            n == PCount(vc.info_views) + Len(vc.other_ps)
            review == fields[1][1]
        IN  /\ n > 1 => review.tip = GetText(LastP(vc), <<" ">>)
            /\ n <= 1 => review.tip = Empty
            /\ review.result = Empty

\* C22 witness: the only two p.txt_desc are the process paragraph inside
\* the third div.info_view and one after it; tip is the text of the latter.
C22_Witness ==
    /\ pc = "extracted" /\ doc.fn = "parse_review" /\ fields[1] # None
    /\ doc.page.view_cont = Some(ContOf(3))
    /\ fields[1][1].tip = <<"p">>
    /\ fields[1][1].process = <<"q", " ", "r">>
    /\ fields[1][1].result = Empty

\* ------------------------------------------------------------- C23 ---
\* The reviews of a page: what parse_review returns for its boxes, in
\* order, the boxes it returns None for left out.
RECURSIVE ReviewsOfBoxes(_)
ReviewsOfBoxes(boxes) ==
    IF boxes = <<>> THEN <<>>
    ELSE parse_review(Head(boxes)) \o ReviewsOfBoxes(Tail(boxes))

\* The reviews of the first n requested pages, in page order.
RECURSIVE ReviewsOfPages(_)
ReviewsOfPages(n) ==
    IF n = 0 THEN <<>>
    ELSE ReviewsOfPages(n - 1) \o ReviewsOfBoxes(requested[n].boxes)

\* The first page whose request raised or that held no div.box_review, or
\* max_pages + 1 without such a page.
FirstFailedPage ==
    LET failed == {j \in DOMAIN requested : requested[j].outcome # "posts"}
    IN  IF failed = {} THEN max_pages + 1
        ELSE CHOOSE j \in failed : \A i \in failed : j <= i

\* crawl_saramin_reviews has left its loop.
SaraminReturned ==
    platform = "saramin" /\ pc \in {"urls_end", "search_done", "done", "raised_output"}

\* C23: crawl_saramin_reviews requests the pages 1, 2, ... in order and none
\* after the first page k whose request raised or that held no box; it
\* returns exactly the reviews of the pages 1..k-1, in page order, the boxes
\* parse_review returned None for left out, whatever happened on page k.
C23_ReviewsUpToFirstFailedPage ==
    platform = "saramin" =>
        /\ \A j \in DOMAIN requested : requested[j].page = j
        /\ Len(requested) <= FirstFailedPage
        /\ Len(requested) <= max_pages
        /\ SaraminReturned =>
              /\ Len(requested) = IF FirstFailedPage > max_pages THEN max_pages
                                  ELSE FirstFailedPage
              /\ all_reviews = ReviewsOfPages(FirstFailedPage - 1)

\* C23 witness: page 1 held a box that was skipped and a box that was
\* parsed, the request of page 2 raised, and the review of page 1 is
\* returned.
C23_Witness ==
    /\ SaraminReturned
    /\ Len(requested) = 2
    /\ requested[1].outcome = "posts" /\ Len(requested[1].boxes) = 2
    /\ requested[1].boxes[1].view_title = None
    /\ requested[2].outcome = "raise"
    /\ Len(all_reviews) = 1

\* ------------------------------------------------------------- C24 ---
\* The dynamic fetches started so far.
DynamicAttempts == {k \in DOMAIN trace : trace[k].strategy = "dynamic"}

\* A dynamic article fetch holds its session.
InDynamicFetch == pc \in {"sel_get", "sel_scroll", "sel_source"}

\* Discovery has returned and no dynamic fetch holds a session: the
\* orchestrator is between two URLs, or the run has returned.
BetweenUrls ==
    pc \in {"urls_done", "search_loop", "sel_init", "search_done", "done",
            "raised_output"}

\* C24: at most one browser session is open at any point of a run.  The
\* discovery session is quit before the first article fetch starts; a
\* dynamic article fetch opens a session of its own, which no earlier
\* step has used, and quits it before the next URL is processed; a session
\* is opened only while none is open, and one that was quit is never used
\* again.
C24_OneSessionAtATime ==
    /\ [](/\ Cardinality(drivers) <= 1
          /\ drivers \subseteq {opened}
          /\ (platform \in {"tistory", "velog"} /\ BetweenUrls) => drivers = {}
          /\ (platform = "tistory" /\ InDynamicFetch) =>
                /\ drivers = {opened}
                /\ opened = 1 + Cardinality(DynamicAttempts)
                /\ trace[Len(trace)].strategy = "dynamic"
                /\ trace[Len(trace)].url = collected_urls[idx])
    /\ [][/\ opened' \in {opened, opened + 1}
          /\ opened' # opened => drivers = {} /\ drivers' = {opened'}
          /\ opened' = opened => drivers' \subseteq drivers
          /\ idx' # idx => drivers' = {}]_vars

\* C24 witness: the second URL of a Tistory run is being fetched
\* dynamically, after the first one was; the session open is the third of
\* the run and the only one.
C24_Witness ==
    /\ platform = "tistory" /\ pc = "sel_scroll"
    /\ idx = 2
    /\ Cardinality(DynamicAttempts) = 2
    /\ opened = 3
    /\ drivers = {3}

====
